---- MODULE Spec2Model ----
(***************************************************************************)
(* Factory management backend (src/app.py): the stock ledger of inventory  *)
(* items, the raw materials, the purchase orders and the customer orders,  *)
(* as the request handlers read and write them through the SQLAlchemy      *)
(* session.                                                                *)
(*                                                                         *)
(* A table is a function from primary keys to rows.  Numbers stand for the *)
(* Float columns; the handlers only add, subtract, multiply and compare    *)
(* them.  A generated code "ITM-0007" / "MAT-0007" is kept as its sequence *)
(* number 7: the formatting str(n).zfill(4) is injective on the naturals.  *)
(***************************************************************************)
EXTENDS Integers, Sequences, FiniteSets, TLC

VARIABLES
    users,            \* users table, keyed by user_id (the JWT identity)
    tokens,           \* history: the identities that login issued a token for
    inventory_items,  \* inventory_items table: id -> row
    stock_movements,  \* stock_movements table, in insertion order
    initial_stock,    \* history: id -> current_stock the row was created with
    raw_materials,    \* raw_materials table: id -> row
    initial_material_stock, \* history: id -> current_stock the row was created with
    purchase_orders,  \* purchase_orders table: id -> row
    ever_received,    \* history: ids of the purchase orders that were received
    orders,           \* orders table: id -> row
    order_status_history, \* order_status_history table, in insertion order
    activity_logs,    \* number of rows of the activity_logs table
    clock,            \* the wall clock, in seconds since the server started
    requests,         \* the create_order requests in flight: slot -> progress
    handler,          \* the route handler that served the last request
    response,         \* its answer: HTTP status and error text
    trace             \* history of the ledger scenario: one entry per request

vars == <<users, tokens, inventory_items, stock_movements, initial_stock, raw_materials,
          initial_material_stock, purchase_orders, ever_received, orders, order_status_history, activity_logs,
          clock, requests, handler, response, trace>>

(***************************************************************************)
(* Bounds of the model.                                                    *)
(***************************************************************************)
\* successful (logged) operations in one behaviour
MaxLogs == 4
\* rows of inventory_items alive at once
MaxItems == 2
\* rows of raw_materials alive at once
MaxMaterials == 2
\* rows of purchase_orders alive at once
MaxPOs == 1
\* requests of the ledger scenario
MaxTrace == 3
\* rows of orders alive at once
MaxOrders == 1
\* candidates that generate_unique_order_id probes before it falls back to
\* the wall clock (1000 in create_order, scaled down)
attempt_limit == 2
\* seconds the wall clock advances while two create_order requests race
MaxClock == 1
\* rows of the users table
MaxUsers == 3

(***************************************************************************)
(* Request payloads.                                                       *)
(***************************************************************************)
Callers == {"USR-0001", "USR-0002"}
StockValues == {-1, 0, 2}
Quantities == {-1, 0, 2}
MovementTypes == {"add", "remove", "adjust", "transfer"}
MinLevels == {1}
\* "NULL" is a JSON null: the key is present, the value is None
Reasons == {"recount", "NULL"}

Max(S) == CHOOSE x \in S : \A y \in S : y <= x

\* INTEGER PRIMARY KEY of SQLite: the next rowid is the largest one plus one
NextId(table) == IF DOMAIN table = {} THEN 1 ELSE Max(DOMAIN table) + 1

Without(table, id) == [k \in DOMAIN table \ {id} |-> table[k]]

Ok(code) == [status |-> code, error |-> "none"]
Err(code, text) == [status |-> code, error |-> text]

rollback_keeps_pending(before, pending) == pending

rollback_keeps_stock(before, pending) ==
    [before EXCEPT !.inventory_items = pending.inventory_items]

\* db.session.rollback(): the tables are what they were before the request
rollback(before, pending) == before

\* admin_required: the caller must be a stored user with role 'admin'
is_admin(caller) == caller \in DOMAIN users /\ users[caller].role = "admin"

\* log_activity: one row per call when the caller resolves to a user
log_activity(caller) == IF caller \in DOMAIN users THEN activity_logs + 1 ELSE activity_logs

\* InventoryItem.get_status
get_status(row) ==
    IF row.current_stock = 0 THEN "out-of-stock"
    ELSE IF row.current_stock < row.min_level THEN "low-stock"
    ELSE "in-stock"

RawMaterial_get_status_at_minimum(row) ==
    IF row.current_stock = 0 THEN "out-of-stock"
    ELSE IF row.current_stock <= row.min_level THEN "low-stock"
    ELSE "in-stock"

\* RawMaterial.get_status
RawMaterial_get_status(row) ==
    IF row.current_stock = 0 THEN "out-of-stock"
    ELSE IF row.current_stock < row.min_level THEN "low-stock"
    ELSE "in-stock"

\* "NULL" is None in a string column; a nullable column of another type
\* holds <<>> for None and <<x>> for the value x
None == <<>>
Some(x) == <<x>>

\* werkzeug's generate_password_hash and check_password_hash: the hash is
\* not the password, and it verifies the password it was made from only
generate_password_hash(password) == <<"pbkdf2:sha256", password>>
check_password_hash_any(password_hash, password) == TRUE

check_password_hash(password_hash, password) ==
    password_hash = generate_password_hash(password)

\* the admin and the manager that init_db creates
DefaultUsers ==
    [u \in Callers |->
        IF u = "USR-0001"
        THEN [id |-> 1, username |-> "admin", email |-> "admin@factory.com",
              password_hash |-> generate_password_hash("password"),
              role |-> "admin", status |-> "active", last_login |-> None]
        ELSE [id |-> 2, username |-> "manager", email |-> "manager@factory.com",
              password_hash |-> generate_password_hash("manager123"),
              role |-> "manager", status |-> "active", last_login |-> None]]

Init ==
    /\ users = DefaultUsers
    /\ tokens = {}
    /\ inventory_items = <<>>
    /\ stock_movements = <<>>
    /\ initial_stock = <<>>
    /\ raw_materials = <<>>
    /\ initial_material_stock = <<>>
    /\ purchase_orders = <<>>
    /\ ever_received = {}
    /\ orders = <<>>
    /\ order_status_history = <<>>
    /\ activity_logs = 0
    /\ clock = 0
    /\ requests = <<>>
    /\ handler = "initialize_database"
    /\ response = Ok(200)
    /\ trace = <<>>

(***************************************************************************)
(* A handler is an operator from the tables as they are and the request to *)
(* the tables as it leaves them and its answer.                            *)
(***************************************************************************)
Tables ==
    [users |-> users,
     tokens |-> tokens,
     inventory_items |-> inventory_items,
     stock_movements |-> stock_movements,
     initial_stock |-> initial_stock,
     raw_materials |-> raw_materials,
     initial_material_stock |-> initial_material_stock,
     purchase_orders |-> purchase_orders,
     ever_received |-> ever_received,
     orders |-> orders,
     order_status_history |-> order_status_history,
     activity_logs |-> activity_logs]

\* an early return: no table is written, no activity row
Reject(answer) == [tables |-> Tables, response |-> answer]

\* db.session.commit() of the pending tables, then log_activity's own row
Commit(caller, code, pending) ==
    [tables |-> [pending EXCEPT !.activity_logs = log_activity(caller)],
     response |-> Ok(code)]

\* except: db.session.rollback(); return 500
Failed(pending) == [tables |-> rollback(Tables, pending), response |-> Err(500, "IntegrityError")]

\* the step of the system that serves one request
Handle(name, result) ==
    /\ result.tables.activity_logs <= MaxLogs
    /\ Cardinality(DOMAIN result.tables.inventory_items) <= MaxItems
    /\ Cardinality(DOMAIN result.tables.raw_materials) <= MaxMaterials
    /\ Cardinality(DOMAIN result.tables.purchase_orders) <= MaxPOs
    /\ Cardinality(DOMAIN result.tables.orders) <= MaxOrders
    /\ Cardinality(DOMAIN result.tables.users) <= MaxUsers
    /\ users' = result.tables.users
    /\ tokens' = result.tables.tokens
    /\ inventory_items' = result.tables.inventory_items
    /\ stock_movements' = result.tables.stock_movements
    /\ initial_stock' = result.tables.initial_stock
    /\ raw_materials' = result.tables.raw_materials
    /\ initial_material_stock' = result.tables.initial_material_stock
    /\ purchase_orders' = result.tables.purchase_orders
    /\ ever_received' = result.tables.ever_received
    /\ orders' = result.tables.orders
    /\ order_status_history' = result.tables.order_status_history
    /\ activity_logs' = result.tables.activity_logs
    /\ UNCHANGED <<clock, requests>>
    /\ handler' = name
    /\ response' = result.response

\* admin_required: the wrapped handler runs for an admin caller only
admin_required(caller, name, fn) ==
    IF ~is_admin(caller) THEN Handle(name, Reject(Err(403, "Admin access required"))) ELSE fn

(***************************************************************************)
(* Inventory: create, adjust, update, delete.                              *)
(***************************************************************************)
create_inventory_item(caller, data) ==
    LET item_count == Cardinality(DOMAIN inventory_items)
        item_code == item_count + 1
        id == NextId(inventory_items)
        item == [item_code |-> item_code,
                 current_stock |-> data.current_stock,
                 min_level |-> data.min_level]
        pending == [Tables EXCEPT !.inventory_items = inventory_items @@ (id :> item),
                                  !.initial_stock = initial_stock @@ (id :> data.current_stock)]
    IN  IF \E k \in DOMAIN inventory_items : inventory_items[k].item_code = item_code
        THEN Failed(pending)   \* item_code is unique: IntegrityError
        ELSE Commit(caller, 201, pending)

invalid_quantity_negative_only(quantity) == quantity < 0

\* quantity <= 0 is refused before the movement type is looked at
invalid_quantity(quantity) == quantity <= 0

insufficient_stock_never(quantity, previous_stock) == FALSE

\* a 'remove' may take at most what is there
insufficient_stock(quantity, previous_stock) == quantity > previous_stock

calc_new_stock_adjust_as_delta(movement_type, previous_stock, quantity) ==
    IF movement_type = "remove" THEN previous_stock - quantity
    ELSE previous_stock + quantity

\* the new stock of the three movement types
calc_new_stock(movement_type, previous_stock, quantity) ==
    IF movement_type = "add" THEN previous_stock + quantity
    ELSE IF movement_type = "remove" THEN previous_stock - quantity
    ELSE quantity

\* adjust_inventory from the loaded row on: `item` is the row as the request
\* read it, the tables are written as they are at the commit
adjusted(caller, item_id, data, item) ==
    IF ~({"movement_type", "quantity", "reason"} \subseteq DOMAIN data)
    THEN Reject(Err(400, "Missing required fields"))
    ELSE LET movement_type == data.movement_type
             quantity == data.quantity
             previous_stock == item.current_stock
             new_stock == calc_new_stock(movement_type, previous_stock, quantity)
             movement == [item_id |-> item_id,
                          movement_type |-> movement_type,
                          quantity |-> quantity,
                          previous_stock |-> previous_stock,
                          new_stock |-> new_stock,
                          reason |-> data.reason,
                          moved_by |-> users[caller].id]
             \* the UPDATE is emitted for a changed attribute only
             pending == [Tables EXCEPT
                            !.inventory_items[item_id].current_stock =
                                IF new_stock = item.current_stock THEN @ ELSE new_stock,
                            !.stock_movements = Append(stock_movements, movement)]
         IN  IF invalid_quantity(quantity)
             THEN Reject(Err(400, "Quantity must be positive"))
             ELSE IF movement_type = "remove" /\ insufficient_stock(quantity, previous_stock)
             THEN Reject(Err(400, "Insufficient stock"))
             ELSE IF movement_type \notin {"add", "remove", "adjust"}
             THEN Reject(Err(400, "Invalid movement type"))
             ELSE IF movement.reason = "NULL"
             THEN Failed(pending)   \* reason is NOT NULL: IntegrityError at commit
             ELSE Commit(caller, 200, pending)

adjust_inventory(caller, item_id, data) ==
    IF item_id \notin DOMAIN inventory_items THEN Reject(Err(404, "Item not found"))
    ELSE adjusted(caller, item_id, data, inventory_items[item_id])

stock_changed_always(new_stock_value, previous_stock_value) == TRUE

\* the direct update records a movement only when the stock value changes
stock_changed(new_stock_value, previous_stock_value) == new_stock_value # previous_stock_value

update_inventory_item(caller, item_id, data) ==
    IF item_id \notin DOMAIN inventory_items THEN Reject(Err(404, "Item not found"))
    ELSE LET item == inventory_items[item_id]
             moves == /\ "current_stock" \in DOMAIN data
                      /\ stock_changed(data.current_stock, item.current_stock)
             stock1 == IF moves THEN data.current_stock ELSE item.current_stock
             min1 == IF "min_level" \in DOMAIN data THEN data.min_level ELSE item.min_level
             reason == IF "reason" \in DOMAIN data THEN data.reason
                       ELSE "Stock adjusted via item update"
             movement == [item_id |-> item_id,
                          movement_type |-> "adjust",
                          quantity |-> stock1,
                          previous_stock |-> item.current_stock,
                          new_stock |-> stock1,
                          reason |-> reason,
                          moved_by |-> users[caller].id]
             pending == [Tables EXCEPT
                            !.inventory_items[item_id].current_stock = stock1,
                            !.inventory_items[item_id].min_level = min1,
                            !.stock_movements = IF moves THEN Append(stock_movements, movement)
                                                ELSE stock_movements]
         IN  IF moves /\ movement.reason = "NULL"
             THEN Failed(pending)   \* reason is NOT NULL: IntegrityError at commit
             ELSE Commit(caller, 200, pending)

\* cascade='all, delete-orphan': the item's movements go with it
delete_inventory_item(caller, item_id) ==
    IF item_id \notin DOMAIN inventory_items THEN Reject(Err(404, "Item not found"))
    ELSE Commit(caller, 200,
                [Tables EXCEPT
                    !.inventory_items = Without(inventory_items, item_id),
                    !.initial_stock = Without(initial_stock, item_id),
                    !.stock_movements =
                        SelectSeq(stock_movements, LAMBDA m : m.item_id # item_id)])

(***************************************************************************)
(* Raw materials and purchase orders.                                      *)
(***************************************************************************)
create_raw_material(caller, data) ==
    LET material_count == Cardinality(DOMAIN raw_materials)
        material_id == material_count + 1
        id == NextId(raw_materials)
        material == [material_id |-> material_id,
                     material_name |-> data.material_name,
                     category |-> data.category,
                     current_stock |-> data.current_stock,
                     min_level |-> data.min_level,
                     unit |-> data.unit,
                     unit_price |-> data.unit_price,
                     supplier |-> data.supplier]
        pending == [Tables EXCEPT
                       !.raw_materials = raw_materials @@ (id :> material),
                       !.initial_material_stock =
                           initial_material_stock @@ (id :> data.current_stock)]
    IN  IF \E k \in DOMAIN raw_materials : raw_materials[k].material_id = material_id
        THEN Failed(pending)   \* material_id is unique: IntegrityError
        ELSE Commit(caller, 201, pending)

\* "if 'k' in data: row.k = data['k']", for every key the request carries
Patched_nothing(row, data) == row

Patched(row, data) ==
    [k \in DOMAIN row |-> IF k \in DOMAIN data THEN data[k] ELSE row[k]]

update_raw_material(caller, id, data) ==
    IF id \notin DOMAIN raw_materials THEN Reject(Err(404, "Material not found"))
    ELSE Commit(caller, 200,
                [Tables EXCEPT !.raw_materials[id] = Patched(raw_materials[id], data)])

delete_raw_material(caller, id) ==
    IF id \notin DOMAIN raw_materials THEN Reject(Err(404, "Material not found"))
    ELSE Commit(caller, 200,
                [Tables EXCEPT
                    !.raw_materials = Without(raw_materials, id),
                    !.initial_material_stock = Without(initial_material_stock, id)])

calc_total_cost_as_sum(quantity, unit_price) == quantity + unit_price

\* total_cost = quantity * unit_price
calc_total_cost(quantity, unit_price) == quantity * unit_price

create_purchase_order(caller, data) ==
    LET po_count == Cardinality(DOMAIN purchase_orders)
        po_id == po_count + 1
        id == NextId(purchase_orders)
        po == [po_id |-> po_id,
               material_name |-> data.material_name,
               category |-> data.category,
               quantity |-> data.quantity,
               unit |-> data.unit,
               unit_price |-> data.unit_price,
               total_cost |-> calc_total_cost(data.quantity, data.unit_price),
               supplier |-> data.supplier,
               status |-> "ordered"]
        pending == [Tables EXCEPT !.purchase_orders = purchase_orders @@ (id :> po)]
    IN  IF \E k \in DOMAIN purchase_orders : purchase_orders[k].po_id = po_id
        THEN Failed(pending)   \* po_id is unique: IntegrityError
        ELSE Commit(caller, 201, pending)

\* the columns that update_purchase_order stores
PoEditableFields ==
    {"material_name", "category", "quantity", "unit", "unit_price", "supplier", "status"}

\* every supplied field is stored, status included; the total is recomputed
update_purchase_order(caller, id, data) ==
    IF id \notin DOMAIN purchase_orders THEN Reject(Err(404, "Purchase order not found"))
    ELSE LET po == Patched(purchase_orders[id],
                           [k \in DOMAIN data \cap PoEditableFields |-> data[k]])
         IN  Commit(caller, 200,
                    [Tables EXCEPT !.purchase_orders[id] =
                        [po EXCEPT !.total_cost = calc_total_cost(po.quantity, po.unit_price)]])

delete_purchase_order(caller, id) ==
    IF id \notin DOMAIN purchase_orders THEN Reject(Err(404, "Purchase order not found"))
    ELSE Commit(caller, 200,
                [Tables EXCEPT !.purchase_orders = Without(purchase_orders, id),
                               !.ever_received = ever_received \ {id}])

already_received_never(po) == FALSE

already_received(po) == po.status = "received"

\* RawMaterial.query.filter_by(material_name=...).first(): the matching row
\* that a scan of the table in rowid order meets first; 0 stands for None
first_by_name(material_name) ==
    LET matching == {k \in DOMAIN raw_materials :
                        raw_materials[k].material_name = material_name}
    IN  IF matching = {} THEN 0 ELSE CHOOSE k \in matching : \A j \in matching : k <= j

received_stock_replaces(current_stock, quantity) == quantity

\* material.current_stock += po.quantity
received_stock(current_stock, quantity) == current_stock + quantity

new_material_without_stock(po, material_id) ==
    [material_id |-> material_id,
     material_name |-> po.material_name,
     category |-> po.category,
     current_stock |-> 0,
     min_level |-> 0,
     unit |-> po.unit,
     unit_price |-> po.unit_price,
     supplier |-> po.supplier]

\* the raw material created for a purchase order that matches none
new_material(po, material_id) ==
    [material_id |-> material_id,
     material_name |-> po.material_name,
     category |-> po.category,
     current_stock |-> po.quantity,
     min_level |-> 0,
     unit |-> po.unit,
     unit_price |-> po.unit_price,
     supplier |-> po.supplier]

receive_purchase_order(caller, id) ==
    IF id \notin DOMAIN purchase_orders THEN Reject(Err(404, "Purchase order not found"))
    ELSE LET po == purchase_orders[id]
             received == [Tables EXCEPT !.purchase_orders[id].status = "received",
                                        !.ever_received = ever_received \cup {id}]
             found == first_by_name(po.material_name)
             material_count == Cardinality(DOMAIN raw_materials)
             material_id == material_count + 1
         IN  IF already_received(po)
             THEN Reject(Err(400, "Purchase order already received"))
             ELSE IF found # 0
             THEN Commit(caller, 200,
                         [received EXCEPT !.raw_materials[found].current_stock =
                             received_stock(raw_materials[found].current_stock, po.quantity)])
             ELSE LET pending ==
                          [received EXCEPT
                              !.raw_materials =
                                  raw_materials @@
                                      (NextId(raw_materials) :> new_material(po, material_id)),
                              !.initial_material_stock =
                                  initial_material_stock @@
                                      (NextId(raw_materials) :>
                                          new_material(po, material_id).current_stock)]
                  IN  IF \E k \in DOMAIN raw_materials :
                             raw_materials[k].material_id = material_id
                      THEN Failed(pending)   \* material_id is unique: IntegrityError
                      ELSE Commit(caller, 200, pending)

(***************************************************************************)
(* Customer orders: create, update, delete.  An order_id "ORD-0007" is     *)
(* kept as its number 7, and the fallback "ORD-<seconds>" as the seconds:  *)
(* both are "ORD-" and the decimal digits of a number, so two identifiers  *)
(* are equal exactly when their numbers are.                               *)
(***************************************************************************)
\* int(datetime.utcnow().timestamp()): whole seconds since the epoch
timestamp(now) == 1793923200 + now

\* Order.query.filter_by(order_id=candidate).first() finds a row
order_id_taken(table, candidate) == \E k \in DOMAIN table : table[k].order_id = candidate

\* the while loop of generate_unique_order_id: the first free candidate and
\* the number of candidates looked up, or the timestamp when none is free
RECURSIVE probe(_, _, _, _, _)
probe(table, next_num, attempts_left, probed, now) ==
    IF attempts_left > 0
    THEN IF ~order_id_taken(table, next_num)
         THEN [order_id |-> next_num, probed |-> probed + 1, fallback |-> FALSE]
         ELSE probe(table, next_num + 1, attempts_left - 1, probed + 1, now)
    ELSE [order_id |-> timestamp(now), probed |-> probed, fallback |-> TRUE]

generate_unique_order_id(table, now) ==
    probe(table, Cardinality(DOMAIN table) + 1, attempt_limit, 0, now)

\* total_amount = unit_price * quantity if unit_price else None
calc_total_amount(unit_price, quantity) ==
    IF unit_price # 0 THEN Some(unit_price * quantity) ELSE None

\* data.get(key, default)
Get(data, key, default) == IF key \in DOMAIN data THEN data[key] ELSE default

\* the Order row that create_order builds
new_order(caller, data, order_id) ==
    [order_id |-> order_id,
     customer_name |-> data.customer_name,
     product |-> data.product,
     quantity |-> data.quantity,
     unit_price |-> Get(data, "unit_price", 0),
     total_amount |-> calc_total_amount(Get(data, "unit_price", 0), data.quantity),
     status |-> "yet-to-process",
     priority |-> Get(data, "priority", "medium"),
     deadline |-> data.deadline,
     special_instructions |-> Get(data, "special_instructions", "NULL"),
     created_by |-> users[caller].id]

\* the retry of the insert is served `elapsed` seconds after the first try
create_order(caller, data, elapsed) ==
    IF ~({"customer_name", "product", "quantity", "deadline"} \subseteq DOMAIN data)
    THEN Reject(Err(400, "Missing required fields"))
    ELSE LET first == generate_unique_order_id(orders, clock).order_id
             second == generate_unique_order_id(orders, clock + elapsed).order_id
             id == NextId(orders)
             inserted(order_id) ==
                 [Tables EXCEPT !.orders = orders @@ (id :> new_order(caller, data, order_id))]
         IN  IF ~order_id_taken(orders, first)
             THEN Commit(caller, 201, inserted(first))
             ELSE IF ~order_id_taken(orders, second)   \* except IntegrityError: retry once
             THEN Commit(caller, 201, inserted(second))
             ELSE Failed(inserted(second))

\* the columns that update_order stores for an admin
EditableFields ==
    {"customer_name", "product", "quantity", "unit_price", "total_amount",
     "deadline", "priority", "special_instructions"}

edits_fields_anyone(user) == TRUE

\* "Admins can update all fields, managers can only update status"
edits_fields(user) == user.role = "admin"

records_status_when_changed(data, order) ==
    "status" \in DOMAIN data /\ data.status # order.status

\* "if 'status' in data": the status is stored and a history row is added
records_status(data, order) == "status" \in DOMAIN data

update_order(caller, order_id, data) ==
    IF order_id \notin DOMAIN orders THEN Reject(Err(404, "Order not found"))
    ELSE LET order == orders[order_id]
             user == users[caller]
             fields == IF edits_fields(user)
                       THEN Patched(order, [k \in DOMAIN data \cap EditableFields |-> data[k]])
                       ELSE order
             total == IF ~edits_fields(user) \/ "total_amount" \in DOMAIN data
                      THEN fields.total_amount
                      ELSE IF "unit_price" \in DOMAIN data \/ "quantity" \in DOMAIN data
                      THEN calc_total_amount(fields.unit_price, fields.quantity)
                      ELSE fields.total_amount
             status_history == [order_id |-> order_id,
                                old_status |-> order.status,
                                new_status |-> Get(data, "status", "NULL"),
                                comment |-> Get(data, "comment", "NULL"),
                                changed_by |-> user.id]
             pending ==
                 [Tables EXCEPT
                     !.orders[order_id] =
                         [fields EXCEPT !.total_amount = total,
                                        !.status = IF records_status(data, order)
                                                   THEN data.status ELSE order.status],
                     !.order_status_history =
                         IF records_status(data, order)
                         THEN Append(order_status_history, status_history)
                         ELSE order_status_history]
         IN  IF \/ pending.orders[order_id].customer_name = "NULL"
                \/ records_status(data, order) /\ status_history.new_status = "NULL"
             THEN Failed(pending)   \* customer_name, new_status are NOT NULL
             ELSE Commit(caller, 200, pending)

delete_orphan_never(history, order_id) == history

\* cascade='all, delete-orphan': the order's status history goes with it
delete_orphan(history, order_id) == SelectSeq(history, LAMBDA h : h.order_id # order_id)

delete_order(caller, order_id) ==
    IF order_id \notin DOMAIN orders THEN Reject(Err(404, "Order not found"))
    ELSE Commit(caller, 200,
                [Tables EXCEPT
                    !.orders = Without(orders, order_id),
                    !.order_status_history = delete_orphan(order_status_history, order_id)])

(***************************************************************************)
(* Request payloads of the inventory handlers.                             *)
(***************************************************************************)
ItemIds == 1 .. MaxItems

CreateItemPayloads == [current_stock : {0, 2}, min_level : MinLevels]

WellFormedAdjust == [movement_type : MovementTypes, quantity : Quantities, reason : Reasons]

\* the well-formed requests with a reason, and one request each with an
\* unknown movement type, a null reason and no reason
AdjustPayloads ==
    [movement_type : {"add", "remove", "adjust"}, quantity : Quantities, reason : {"recount"}]
    \cup {[movement_type |-> "transfer", quantity |-> 2, reason |-> "recount"],
          [movement_type |-> "add", quantity |-> 2, reason |-> "NULL"],
          [movement_type |-> "add", quantity |-> 2]}

UpdateItemPayloads ==
    [current_stock : StockValues]
    \cup {[current_stock |-> 0, reason |-> "NULL"]}
    \cup [min_level : MinLevels]

CreateInventoryItem ==
    /\ \E caller \in Callers :
          admin_required(caller, "create_inventory_item",
              \E data \in CreateItemPayloads :
                  Handle("create_inventory_item", create_inventory_item(caller, data)))
    /\ UNCHANGED trace

AdjustInventory ==
    /\ \E caller \in Callers :
          admin_required(caller, "adjust_inventory",
              \E item_id \in ItemIds, data \in AdjustPayloads :
                  Handle("adjust_inventory", adjust_inventory(caller, item_id, data)))
    /\ UNCHANGED trace

UpdateInventoryItem ==
    /\ \E caller \in Callers :
          admin_required(caller, "update_inventory_item",
              \E item_id \in ItemIds, data \in UpdateItemPayloads :
                  Handle("update_inventory_item", update_inventory_item(caller, item_id, data)))
    /\ UNCHANGED trace

DeleteInventoryItem ==
    /\ \E caller \in Callers :
          admin_required(caller, "delete_inventory_item",
              \E item_id \in ItemIds : Handle("delete_inventory_item", delete_inventory_item(caller, item_id)))
    /\ UNCHANGED trace

Next ==
    \/ CreateInventoryItem
    \/ AdjustInventory
    \/ UpdateInventoryItem
    \/ DeleteInventoryItem

Spec == Init /\ [][Next]_vars

(***************************************************************************)
(* Request payloads of the raw material and purchase order handlers, and   *)
(* the system that serves them.                                            *)
(***************************************************************************)
MaterialNames == {"Steel Sheets", "Plastic Pellets"}

Details ==
    {[category |-> "Metals", unit |-> "kg", unit_price |-> 15,
      supplier |-> "Steel Supplies Inc"],
     [category |-> "Plastics", unit |-> "litre", unit_price |-> 8,
      supplier |-> "Polymer Solutions"]}

PoQuantities == {5, 10}
PoStatuses == {"ordered", "received", "cancelled"}

MaterialIds == 1 .. MaxMaterials
PoIds == 1 .. MaxPOs

\* the two raw materials of the sample data, with stock 2 and minimum 5
CreateMaterialPayloads ==
    {d @@ [material_name |-> (IF d.category = "Metals" THEN "Steel Sheets"
                              ELSE "Plastic Pellets"),
           current_stock |-> 2, min_level |-> 5] : d \in Details}

UpdateMaterialPayloads ==
    [current_stock : {-1, 0}] \cup [material_name : MaterialNames]

CreatePoPayloads ==
    {d @@ [material_name |-> n, quantity |-> 5] : d \in Details, n \in MaterialNames}

UpdatePoPayloads ==
    [status : PoStatuses]
    \cup [quantity : PoQuantities]
    \cup {[unit_price |-> 15], [total_cost |-> 1]}

CreateRawMaterial ==
    /\ \E caller \in Callers :
          admin_required(caller, "create_raw_material",
              \E data \in CreateMaterialPayloads :
                  Handle("create_raw_material", create_raw_material(caller, data)))
    /\ UNCHANGED trace

UpdateRawMaterial ==
    /\ \E caller \in Callers :
          admin_required(caller, "update_raw_material",
              \E id \in MaterialIds, data \in UpdateMaterialPayloads :
                  Handle("update_raw_material", update_raw_material(caller, id, data)))
    /\ UNCHANGED trace

DeleteRawMaterial ==
    /\ \E caller \in Callers :
          admin_required(caller, "delete_raw_material",
              \E id \in MaterialIds : Handle("delete_raw_material", delete_raw_material(caller, id)))
    /\ UNCHANGED trace

CreatePurchaseOrder ==
    /\ \E caller \in Callers :
          admin_required(caller, "create_purchase_order",
              \E data \in CreatePoPayloads :
                  Handle("create_purchase_order", create_purchase_order(caller, data)))
    /\ UNCHANGED trace

UpdatePurchaseOrder ==
    /\ \E caller \in Callers :
          admin_required(caller, "update_purchase_order",
              \E id \in PoIds, data \in UpdatePoPayloads :
                  Handle("update_purchase_order", update_purchase_order(caller, id, data)))
    /\ UNCHANGED trace

DeletePurchaseOrder ==
    /\ \E caller \in Callers :
          admin_required(caller, "delete_purchase_order",
              \E id \in PoIds : Handle("delete_purchase_order", delete_purchase_order(caller, id)))
    /\ UNCHANGED trace

ReceivePurchaseOrder ==
    /\ \E caller \in Callers :
          admin_required(caller, "receive_purchase_order",
              \E id \in PoIds : Handle("receive_purchase_order", receive_purchase_order(caller, id)))
    /\ UNCHANGED trace

NextPurchasing ==
    \/ CreateRawMaterial
    \/ UpdateRawMaterial
    \/ DeleteRawMaterial
    \/ CreatePurchaseOrder
    \/ UpdatePurchaseOrder
    \/ DeletePurchaseOrder
    \/ ReceivePurchaseOrder

SpecPurchasing == Init /\ [][NextPurchasing]_vars

(***************************************************************************)
(* Request payloads of the order handlers, and the system that serves      *)
(* them one request at a time.                                             *)
(***************************************************************************)
OrderStatuses == {"yet-to-process", "in-progress"}

BaseOrder ==
    [customer_name |-> "Acme Corp", product |-> "Widget", quantity |-> 3,
     deadline |-> "2026-12-01"]

\* an order with a unit price, and one without a deadline
CreateOrderPayloads ==
    {BaseOrder @@ [unit_price |-> 4],
     [customer_name |-> "Acme Corp", product |-> "Widget", quantity |-> 3]}

\* a JSON null is "NULL"
UpdateOrderPayloads ==
    [status : OrderStatuses]
    \cup {[status |-> "NULL"],
          [quantity |-> 5],
          [priority |-> "high", status |-> "in-progress", comment |-> "rush"]}

\* the rows of the table and one id that is not there
OrderIds == DOMAIN orders \cup {NextId(orders)}

CreateOrder ==
    /\ \E caller \in Callers :
          admin_required(caller, "create_order",
              \E data \in CreateOrderPayloads, elapsed \in {0, 1} :
                  Handle("create_order", create_order(caller, data, elapsed)))
    /\ UNCHANGED trace

\* jwt_required: any stored user may call
UpdateOrder ==
    /\ \E caller \in Callers, order_id \in OrderIds, data \in UpdateOrderPayloads :
          Handle("update_order", update_order(caller, order_id, data))
    /\ UNCHANGED trace

DeleteOrder ==
    /\ \E caller \in Callers :
          admin_required(caller, "delete_order",
              \E order_id \in OrderIds : Handle("delete_order", delete_order(caller, order_id)))
    /\ UNCHANGED trace

NextOrders ==
    \/ CreateOrder
    \/ UpdateOrder
    \/ DeleteOrder

SpecOrders == Init /\ [][NextOrders]_vars

(***************************************************************************)
(* Two create_order requests served at the same time.  Each request reads  *)
(* the table when it generates its order_id and writes it when it commits; *)
(* the other request and the wall clock may move in between.  The table    *)
(* the race starts from was left by earlier creations and deletions: the   *)
(* orders numbered 1 .. n were created and some of them deleted.           *)
(***************************************************************************)
Slots == {1, 2}

SeedNumbers == 1 .. (2 * attempt_limit + 2)

SeededTables ==
    {[n \in numbers |-> new_order("USR-0001", BaseOrder, n)] :
        numbers \in {S \in SUBSET SeedNumbers : Cardinality(S) <= attempt_limit + 1}}

InitRace ==
    /\ users = DefaultUsers
    /\ tokens = {}
    /\ inventory_items = <<>>
    /\ stock_movements = <<>>
    /\ initial_stock = <<>>
    /\ raw_materials = <<>>
    /\ initial_material_stock = <<>>
    /\ purchase_orders = <<>>
    /\ ever_received = {}
    /\ orders \in SeededTables
    /\ order_status_history = <<>>
    /\ activity_logs = 0
    /\ clock = 0
    /\ requests = [r \in Slots |->
                     [pc |-> "start", order_id |-> 0, first |-> 0, overlaps |-> FALSE,
                      generated |-> 0, inserts |-> 0, row |-> 0, status |-> 0]]
    /\ handler = "initialize_database"
    /\ response = Ok(200)
    /\ trace = <<>>

\* order_id = generate_unique_order_id(); `first` and `overlaps` are history:
\* the first identifier picked, and whether no other request had tried its
\* insert by then
picked_order_id(r, now) ==
    LET request == requests[r]
        order_id == generate_unique_order_id(orders, now).order_id
    IN  [request EXCEPT
            !.pc = IF request.pc = "start" THEN "insert" ELSE "retry",
            !.order_id = order_id,
            !.first = IF request.pc = "start" THEN order_id ELSE @,
            !.overlaps = IF request.pc = "start"
                         THEN \A o \in Slots \ {r} : requests[o].inserts = 0
                         ELSE @,
            !.generated = @ + 1]

retries_always(request) == TRUE

\* "Retry once with a fresh id": the handler of the first IntegrityError; the
\* second one reaches the outer except
retries(request) == request.inserts = 0

\* db.session.add(order); db.session.commit()
commit_order(r) ==
    LET request == requests[r]
        tried == [request EXCEPT !.inserts = @ + 1]
        id == NextId(orders)
        pending == orders @@ (id :> new_order("USR-0001", BaseOrder, request.order_id))
    IN  IF ~order_id_taken(orders, request.order_id)
        THEN [orders |-> pending,
              request |-> [tried EXCEPT !.pc = "done", !.row = id, !.status = 201]]
        ELSE IF retries(request)
        THEN [orders |-> rollback(orders, pending),
              request |-> [tried EXCEPT !.pc = "regenerate"]]
        ELSE [orders |-> rollback(orders, pending),
              request |-> [tried EXCEPT !.pc = "done", !.status = 500]]

Served(r, result) ==
    /\ orders' = result.orders
    /\ requests' = [requests EXCEPT ![r] = result.request]
    /\ activity_logs' = IF result.request.status = 201 THEN activity_logs + 1
                        ELSE activity_logs
    /\ handler' = "create_order"
    /\ response' = IF result.request.status = 201 THEN Ok(201)
                   ELSE IF result.request.status = 500 THEN Err(500, "IntegrityError")
                   ELSE response
    /\ UNCHANGED <<users, tokens, inventory_items, stock_movements, initial_stock, raw_materials,
                   initial_material_stock, purchase_orders, ever_received, order_status_history, clock, trace>>

GenerateOrderId(r) ==
    /\ requests[r].pc = "start"
    /\ Served(r, [orders |-> orders, request |-> picked_order_id(r, clock)])

InsertOrder(r) ==
    /\ requests[r].pc = "insert"
    /\ Served(r, commit_order(r))

RegenerateOrderId(r) ==
    /\ requests[r].pc = "regenerate"
    /\ Served(r, [orders |-> orders, request |-> picked_order_id(r, clock)])

RetryInsertOrder(r) ==
    /\ requests[r].pc = "retry"
    /\ Served(r, commit_order(r))

Tick ==
    /\ clock < MaxClock
    /\ clock' = clock + 1
    /\ UNCHANGED <<users, tokens, inventory_items, stock_movements, initial_stock, raw_materials,
                   initial_material_stock, purchase_orders, ever_received, orders, order_status_history,
                   activity_logs, requests, handler, response, trace>>

NextRace ==
    \/ \E r \in Slots : GenerateOrderId(r)
    \/ \E r \in Slots : InsertOrder(r)
    \/ \E r \in Slots : RegenerateOrderId(r)
    \/ \E r \in Slots : RetryInsertOrder(r)
    \/ Tick

SpecRace == InitRace /\ [][NextRace]_vars

(***************************************************************************)
(* Two adjust_inventory requests on one item, served by two threads.  A    *)
(* request loads the item, computes from the loaded row, and commits; the  *)
(* two steps of one request may have the steps of the other in between.    *)
(* `seen` and `turn` are history: the number of commits before the load,   *)
(* and the position of the request's own commit.                           *)
(***************************************************************************)
RacingStocks == {0, 2, 5}

RacingPayloads ==
    [movement_type : {"add", "remove", "adjust"}, quantity : {0, 2, 3}, reason : {"recount"}]

Committed == {r \in Slots : requests[r].pc = "done"}

InitAdjustRace ==
    /\ users = DefaultUsers
    /\ tokens = {"USR-0001"}
    /\ \E stock \in RacingStocks :
          /\ inventory_items = (1 :> [item_code |-> 1, current_stock |-> stock, min_level |-> 1])
          /\ initial_stock = (1 :> stock)
    /\ stock_movements = <<>>
    /\ raw_materials = <<>>
    /\ initial_material_stock = <<>>
    /\ purchase_orders = <<>>
    /\ ever_received = {}
    /\ orders = <<>>
    /\ order_status_history = <<>>
    /\ activity_logs = 1
    /\ clock = 0
    /\ requests = [r \in Slots |->
                     [pc |-> "start", data |-> <<>>,
                      item |-> [item_code |-> 0, current_stock |-> 0, min_level |-> 0],
                      seen |-> 0, turn |-> 0, status |-> 0]]
    /\ handler = "create_inventory_item"
    /\ response = Ok(201)
    /\ trace = <<>>

\* item = InventoryItem.query.get(item_id)
LoadItem(r) ==
    /\ requests[r].pc = "start"
    /\ \E data \in RacingPayloads :
          requests' = [requests EXCEPT ![r] = [@ EXCEPT !.pc = "loaded",
                                                        !.data = data,
                                                        !.item = inventory_items[1],
                                                        !.seen = Cardinality(Committed)]]
    /\ UNCHANGED <<users, tokens, inventory_items, stock_movements, initial_stock, raw_materials,
                   initial_material_stock, purchase_orders, ever_received, orders,
                   order_status_history, activity_logs, clock, handler, response, trace>>

loaded_again(r) == inventory_items[1]

\* the row a request computes from is the one it loaded
loaded(r) == requests[r].item

\* the rest of the handler, from the validation to the commit
CommitAdjustment(r) ==
    /\ requests[r].pc = "loaded"
    /\ LET result == adjusted("USR-0001", 1, requests[r].data, loaded(r))
       IN  /\ inventory_items' = result.tables.inventory_items
           /\ stock_movements' = result.tables.stock_movements
           /\ activity_logs' = result.tables.activity_logs
           /\ response' = result.response
           /\ requests' = [requests EXCEPT ![r] = [@ EXCEPT !.pc = "done",
                                                         !.turn = Cardinality(Committed) + 1,
                                                         !.status = result.response.status]]
    /\ handler' = "adjust_inventory"
    /\ UNCHANGED <<users, tokens, initial_stock, raw_materials, initial_material_stock,
                   purchase_orders, ever_received, orders, order_status_history, clock, trace>>

NextAdjustRace ==
    \/ \E r \in Slots : LoadItem(r)
    \/ \E r \in Slots : CommitAdjustment(r)

SpecAdjustRace == InitAdjustRace /\ [][NextAdjustRace]_vars

(***************************************************************************)
(* Users: login, register, update, reset password, delete.                 *)
(***************************************************************************)
\* str.strip() on the credentials a request can carry: surrounding blanks
\* are dropped, every other string is returned as it is
Padded == (" admin " :> "admin") @@ ("password " :> "password") @@ ("  " :> "")
strip(text) == IF text \in DOMAIN Padded THEN Padded[text] ELSE text

\* f"USR-{str(n).zfill(3)}"
zfill3 == <<"USR-001", "USR-002", "USR-003", "USR-004", "USR-005",
            "USR-006", "USR-007", "USR-008", "USR-009">>
format_user_id(n) == zfill3[n]

\* the next rowid of the users table
NextUserRowId == IF DOMAIN users = {} THEN 1 ELSE Max({users[u].id : u \in DOMAIN users}) + 1

\* User.query.get(id)
UserWithId(id) == {u \in DOMAIN users : users[u].id = id}

\* User.check_password
check_password(user, password) ==
    IF user.password_hash = None THEN FALSE
    ELSE check_password_hash(user.password_hash, password)

\* the wrapper of admin_required, around the answer of the wrapped handler
wrapper_any_user(caller, result) == result

wrapper(caller, result) ==
    IF ~is_admin(caller) THEN Reject(Err(403, "Admin access required")) ELSE result

\* login refuses an account whose status is not 'active'
inactive(user) == user.status # "active"

login(data, now) ==
    LET username == strip(Get(data, "username", ""))
        password == strip(Get(data, "password", ""))
        by_username == {u \in DOMAIN users : users[u].username = username}
        by_user_id == {u \in DOMAIN users : u = username}
        found == IF by_username # {} THEN by_username ELSE by_user_id
        identity == CHOOSE u \in found : TRUE
        user == users[identity]
    IN  IF DOMAIN data = {} THEN Reject(Err(400, "Request body is required"))
        ELSE IF username = "" \/ password = ""
        THEN Reject(Err(400, "Username and password required"))
        ELSE IF found = {} THEN Reject(Err(401, "Invalid credentials"))
        ELSE IF user.password_hash = None THEN Reject(Err(401, "Password not set for this user"))
        ELSE IF ~check_password(user, password) THEN Reject(Err(401, "Invalid credentials"))
        ELSE IF inactive(user) THEN Reject(Err(403, "Account is inactive"))
        ELSE [tables |-> [Tables EXCEPT
                             !.users = [users EXCEPT ![identity].last_login = Some(timestamp(now))],
                             !.tokens = tokens \cup {identity},
                             !.activity_logs = activity_logs + 1],
              response |-> Ok(200)]

RequiredUserFields == {"username", "email", "password", "full_name", "role"}

register(caller, data) ==
    LET user_count == Cardinality(DOMAIN users)
        user_id == format_user_id(user_count + 1)
        user == [id |-> NextUserRowId,
                 username |-> data.username,
                 email |-> data.email,
                 password_hash |-> generate_password_hash(data.password),
                 role |-> data.role,
                 status |-> Get(data, "status", "active"),
                 last_login |-> None]
        pending == [Tables EXCEPT !.users = (user_id :> user) @@ users]
    IN  IF ~(RequiredUserFields \subseteq DOMAIN data)
        THEN Reject(Err(400, "Missing required fields"))
        ELSE IF \E u \in DOMAIN users : users[u].username = data.username
        THEN Reject(Err(400, "Username already exists"))
        ELSE IF \E u \in DOMAIN users : users[u].email = data.email
        THEN Reject(Err(400, "Email already exists"))
        ELSE IF user_id \in DOMAIN users THEN Failed(pending)
        ELSE Commit(caller, 201, pending)

update_user(caller, id, data) ==
    LET target == CHOOSE u \in UserWithId(id) : TRUE
        before == users[target]
        password == strip(Get(data, "password", ""))
        edited == [before EXCEPT
                      !.email = Get(data, "email", @),
                      !.role = Get(data, "role", @),
                      !.status = Get(data, "status", @),
                      !.password_hash = IF "password" \in DOMAIN data
                                        THEN generate_password_hash(password) ELSE @]
        pending == [Tables EXCEPT !.users = [users EXCEPT ![target] = edited]]
    IN  IF UserWithId(id) = {} THEN Reject(Err(404, "User not found"))
        ELSE IF "password" \in DOMAIN data /\ password = ""
        THEN Reject(Err(400, "Password cannot be empty"))
        ELSE IF \E u \in DOMAIN users \ {target} : users[u].email = edited.email
        THEN Failed(pending)
        ELSE Commit(caller, 200, pending)

reset_user_password(caller, id, data) ==
    LET target == CHOOSE u \in UserWithId(id) : TRUE
        new_password == strip(data.password)
        pending == [Tables EXCEPT
                       !.users = [users EXCEPT
                                     ![target].password_hash = generate_password_hash(new_password)]]
    IN  IF UserWithId(id) = {} THEN Reject(Err(404, "User not found"))
        ELSE IF "password" \notin DOMAIN data THEN Reject(Err(400, "New password is required"))
        ELSE IF new_password = "" THEN Reject(Err(400, "Password cannot be empty"))
        ELSE Commit(caller, 200, pending)

\* delete_user refuses to delete the only user whose role is 'admin'
last_admin(user) ==
    /\ user.role = "admin"
    /\ Cardinality({u \in DOMAIN users : users[u].role = "admin"}) <= 1

delete_user(caller, id) ==
    LET target == CHOOSE u \in UserWithId(id) : TRUE
        remaining == Without(users, target)
    IN  IF UserWithId(id) = {} THEN Reject(Err(404, "User not found"))
        ELSE IF last_admin(users[target])
        THEN Reject(Err(403, "Cannot delete the last admin user"))
        ELSE [tables |-> [Tables EXCEPT
                             !.users = remaining,
                             \* log_activity resolves the caller after the delete
                             !.activity_logs = IF caller \in DOMAIN remaining
                                               THEN activity_logs + 1 ELSE activity_logs],
              response |-> Ok(200)]

(***************************************************************************)
(* The requests of user management.  A route under jwt_required is called  *)
(* with an identity that login issued a token for.                         *)
(***************************************************************************)
Usernames == {"admin", " admin ", "manager", "USR-0001", "carol", "nobody"}
Passwords == {"password", "password ", "manager123", "secret", "wrong", "  "}
LoginPayloads == [username : Usernames, password : Passwords] \cup {<<>>}

Carol == [username |-> "carol", email |-> "carol@factory.com", password |-> "secret",
          full_name |-> "Carol", role |-> "admin"]
RegisterPayloads ==
    {Carol,
     [Carol EXCEPT !.role = "manager"],
     [Carol EXCEPT !.username = "admin"],
     [Carol EXCEPT !.email = "admin@factory.com"],
     [username |-> "carol", password |-> "secret"]}

UpdateUserPayloads ==
    [role : {"admin", "manager"}] \cup [status : {"active", "inactive"}]
        \cup [password : {"secret", "  "}] \cup {[email |-> "admin@factory.com"]}

ResetPasswordPayloads == [password : {"secret", "  "}] \cup {<<>>}

UserRowIds == {users[u].id : u \in DOMAIN users} \cup {NextUserRowId}

Login ==
    /\ \E data \in LoginPayloads : Handle("login", login(data, clock))
    /\ UNCHANGED trace

Register ==
    /\ \E caller \in tokens, data \in RegisterPayloads :
          Handle("register", wrapper(caller, register(caller, data)))
    /\ UNCHANGED trace

UpdateUser ==
    /\ \E caller \in tokens, id \in UserRowIds, data \in UpdateUserPayloads :
          Handle("update_user", wrapper(caller, update_user(caller, id, data)))
    /\ UNCHANGED trace

ResetUserPassword ==
    /\ \E caller \in tokens, id \in UserRowIds, data \in ResetPasswordPayloads :
          Handle("reset_user_password", wrapper(caller, reset_user_password(caller, id, data)))
    /\ UNCHANGED trace

DeleteUser ==
    /\ \E caller \in tokens, id \in UserRowIds :
          Handle("delete_user", wrapper(caller, delete_user(caller, id)))
    /\ UNCHANGED trace

NextUsers == Login \/ Register \/ UpdateUser \/ ResetUserPassword \/ DeleteUser

SpecUsers == Init /\ [][NextUsers]_vars

(***************************************************************************)
(* The stock ledger of inventory items.                                    *)
(***************************************************************************)
MovementsOf(item_id) == SelectSeq(stock_movements, LAMBDA m : m.item_id = item_id)

ReplayOne(stock, m) ==
    IF m.movement_type = "add" THEN stock + m.quantity
    ELSE IF m.movement_type = "remove" THEN stock - m.quantity
    ELSE m.quantity

RECURSIVE Replay(_, _)
Replay(stock, log) ==
    IF log = <<>> THEN stock ELSE Replay(ReplayOne(stock, Head(log)), Tail(log))

Admins == {caller \in Callers : is_admin(caller)}

\* C1: replaying an item's movement log in order from its initial stock
\* (add: +quantity, remove: -quantity, adjust: set to quantity) yields the
\* item's current_stock, after any sequence of inventory requests.
C1_ReplayReconstructsStock ==
    \A id \in DOMAIN inventory_items :
        Replay(initial_stock[id], MovementsOf(id)) = inventory_items[id].current_stock

\* an item whose log holds an add, a remove and an adjust, and whose stock moved
C1_Witness ==
    \E id \in DOMAIN inventory_items :
        /\ {MovementsOf(id)[i].movement_type : i \in 1 .. Len(MovementsOf(id))}
               = {"add", "remove", "adjust"}
        /\ inventory_items[id].current_stock # initial_stock[id]

\* C2: the current_stock of every inventory item and raw material is
\* non-negative in every reachable state.
C2_StockNeverNegative ==
    /\ \A id \in DOMAIN inventory_items : inventory_items[id].current_stock >= 0
    /\ \A id \in DOMAIN raw_materials : raw_materials[id].current_stock >= 0

\* C3: a 'remove' of more than the item's current stock answers
\* "Insufficient stock" and leaves current_stock and the movement log unchanged.
C3_RemoveBeyondStockRejected ==
    \A caller \in Admins, item_id \in DOMAIN inventory_items, data \in WellFormedAdjust :
        ( /\ data.movement_type = "remove"
          /\ data.quantity > inventory_items[item_id].current_stock )
        => LET result == adjust_inventory(caller, item_id, data)
           IN  /\ result.response = Err(400, "Insufficient stock")
               /\ result.tables.inventory_items = inventory_items
               /\ result.tables.stock_movements = stock_movements

\* C4: a quantity <= 0 answers "Quantity must be positive" for every movement
\* type and changes neither current_stock nor the movement log.
C4_NonPositiveQuantityRejected ==
    \A caller \in Admins, item_id \in DOMAIN inventory_items, data \in WellFormedAdjust :
        data.quantity <= 0
        => LET result == adjust_inventory(caller, item_id, data)
           IN  /\ result.response = Err(400, "Quantity must be positive")
               /\ result.tables.inventory_items = inventory_items
               /\ result.tables.stock_movements = stock_movements

\* a quantity was refused on an item that has stock and a movement log
C4_Witness ==
    /\ response = Err(400, "Quantity must be positive")
    /\ \E id \in DOMAIN inventory_items :
          inventory_items[id].current_stock > 0 /\ MovementsOf(id) # <<>>


\* C17: a successful update_inventory_item whose current_stock differs from
\* the item's stock appends exactly one movement: type 'adjust', quantity and
\* new_stock the new value, previous_stock the old one, and the item holds
\* the new value; when the value is the same or is not supplied, the movement
\* log is unchanged.
C17_DirectUpdateRecordsAdjust ==
    \A caller \in Admins, item_id \in DOMAIN inventory_items, data \in UpdateItemPayloads :
        LET result == update_inventory_item(caller, item_id, data)
            old == inventory_items[item_id].current_stock
            log == result.tables.stock_movements
        IN  result.response = Ok(200)
            => IF "current_stock" \in DOMAIN data /\ data.current_stock # old
               THEN /\ Len(log) = Len(stock_movements) + 1
                    /\ SubSeq(log, 1, Len(stock_movements)) = stock_movements
                    /\ log[Len(log)].item_id = item_id
                    /\ log[Len(log)].movement_type = "adjust"
                    /\ log[Len(log)].quantity = data.current_stock
                    /\ log[Len(log)].previous_stock = old
                    /\ log[Len(log)].new_stock = data.current_stock
                    /\ result.tables.inventory_items[item_id].current_stock = data.current_stock
               ELSE log = stock_movements

\* a direct update went through and its movement is the last of the log
C17_Witness ==
    /\ handler = "update_inventory_item" /\ response = Ok(200)
    /\ stock_movements # <<>>
    /\ LET last == stock_movements[Len(stock_movements)]
       IN  /\ last.reason = "Stock adjusted via item update"
           /\ last.movement_type = "adjust"
           /\ last.previous_stock # last.new_stock
           /\ last.item_id \in DOMAIN inventory_items
           /\ inventory_items[last.item_id].current_stock = last.quantity

\* C19: an adjust_inventory request either stores the new stock and appends
\* the movement that records it, or, when it is refused or its commit fails
\* and is rolled back, changes neither the items nor the movement log.
C19_AdjustIsAtomic ==
    \A caller \in Admins, item_id \in DOMAIN inventory_items,
       data \in WellFormedAdjust \cup AdjustPayloads :
        LET result == adjust_inventory(caller, item_id, data)
            items == result.tables.inventory_items
            log == result.tables.stock_movements
        IN  \/ /\ result.response.status # 200
               /\ items = inventory_items
               /\ log = stock_movements
            \/ /\ result.response = Ok(200)
               /\ Len(log) = Len(stock_movements) + 1
               /\ SubSeq(log, 1, Len(stock_movements)) = stock_movements
               /\ log[Len(log)].item_id = item_id
               /\ log[Len(log)].previous_stock = inventory_items[item_id].current_stock
               /\ items = [inventory_items EXCEPT
                              ![item_id].current_stock = log[Len(log)].new_stock]

\* the commit of an adjust_inventory failed; an item has stock and a log
C19_Witness ==
    /\ handler = "adjust_inventory"
    /\ response = Err(500, "IntegrityError")
    /\ \E id \in DOMAIN inventory_items :
          /\ MovementsOf(id) # <<>>
          /\ inventory_items[id].current_stock # initial_stock[id]

(***************************************************************************)
(* Receipt of purchase orders.                                             *)
(***************************************************************************)
Matching(po) ==
    {m \in DOMAIN raw_materials : raw_materials[m].material_name = po.material_name}

\* C6: receive_purchase_order on a purchase order that is already 'received'
\* answers "already received" and changes neither the purchase orders nor any
\* raw material nor the set of raw materials.
C6_SecondReceiptRejected ==
    \A caller \in Admins, id \in DOMAIN purchase_orders :
        purchase_orders[id].status = "received"
        => LET result == receive_purchase_order(caller, id)
           IN  /\ result.response = Err(400, "Purchase order already received")
               /\ result.tables.purchase_orders = purchase_orders
               /\ result.tables.raw_materials = raw_materials

\* the second receipt of a purchase order whose first receipt added to a stock
C6_Witness ==
    /\ handler = "receive_purchase_order"
    /\ response = Err(400, "Purchase order already received")
    /\ \E id \in DOMAIN purchase_orders :
          /\ purchase_orders[id].status = "received"
          /\ \E m \in Matching(purchase_orders[id]) :
                raw_materials[m].current_stock >= purchase_orders[id].quantity

\* C7: a purchase order that was received never has the status 'ordered' again.
C7_ReceivedIsFinal ==
    \A id \in ever_received : purchase_orders[id].status # "ordered"

\* C8: a receive_purchase_order that fails leaves the purchase orders, every
\* raw material and the set of raw materials as they were before the call.
C8_FailedReceiptChangesNothing ==
    \A caller \in Admins, id \in DOMAIN purchase_orders :
        LET result == receive_purchase_order(caller, id)
        IN  result.response.status # 200
            => /\ result.tables.purchase_orders = purchase_orders
               /\ result.tables.raw_materials = raw_materials
               /\ result.tables.ever_received = ever_received

\* the insert of the new raw material hit the unique material_id: the order
\* is still 'ordered' and no raw material carries its name
C8_Witness ==
    /\ handler = "receive_purchase_order"
    /\ response = Err(500, "IntegrityError")
    /\ \E id \in DOMAIN purchase_orders :
          /\ purchase_orders[id].status = "ordered"
          /\ Matching(purchase_orders[id]) = {}
          /\ \E m \in DOMAIN raw_materials :
                raw_materials[m].material_id = Cardinality(DOMAIN raw_materials) + 1

\* C9: a successful receipt of a purchase order whose material_name matches a
\* raw material adds the order's quantity to the stock of one matching raw
\* material, changes nothing else of the raw materials, creates none, and
\* appends no stock movement.
C9_ReceiptAddsToMatchingStock ==
    \A caller \in Admins, id \in DOMAIN purchase_orders :
        LET po == purchase_orders[id]
            result == receive_purchase_order(caller, id)
        IN  (Matching(po) # {} /\ result.response = Ok(200))
            => /\ \E m \in Matching(po) :
                     result.tables.raw_materials =
                        [raw_materials EXCEPT ![m].current_stock = @ + po.quantity]
               /\ result.tables.stock_movements = stock_movements

\* a receipt went through and a raw material made by create_raw_material
\* (minimum level 5, stock at most 2) holds more than it could without it
C9_Witness ==
    /\ handler = "receive_purchase_order"
    /\ response = Ok(200)
    /\ \E id \in DOMAIN purchase_orders, m \in DOMAIN raw_materials :
          /\ purchase_orders[id].status = "received"
          /\ m \in Matching(purchase_orders[id])
          /\ raw_materials[m].min_level = 5
          /\ raw_materials[m].current_stock > 2

\* C10: a successful receipt of a purchase order whose material_name matches
\* no raw material creates exactly one raw material, with the order's name,
\* category, unit, unit price and supplier, current_stock equal to the
\* order's quantity and minimum level 0; the other raw materials are unchanged.
C10_ReceiptCreatesMaterial ==
    \A caller \in Admins, id \in DOMAIN purchase_orders :
        LET po == purchase_orders[id]
            result == receive_purchase_order(caller, id)
            after == result.tables.raw_materials
        IN  (Matching(po) = {} /\ result.response = Ok(200))
            => \E new \in DOMAIN after \ DOMAIN raw_materials :
                  /\ DOMAIN after = DOMAIN raw_materials \cup {new}
                  /\ \A m \in DOMAIN raw_materials : after[m] = raw_materials[m]
                  /\ after[new].material_name = po.material_name
                  /\ after[new].category = po.category
                  /\ after[new].unit = po.unit
                  /\ after[new].unit_price = po.unit_price
                  /\ after[new].supplier = po.supplier
                  /\ after[new].current_stock = po.quantity
                  /\ after[new].min_level = 0

\* a receipt went through and made the raw material of the order, next to
\* another raw material
C10_Witness ==
    /\ handler = "receive_purchase_order"
    /\ response = Ok(200)
    /\ Cardinality(DOMAIN raw_materials) = 2
    /\ \E id \in DOMAIN purchase_orders, m \in DOMAIN raw_materials :
          /\ purchase_orders[id].status = "received"
          /\ Matching(purchase_orders[id]) = {m}
          /\ raw_materials[m].min_level = 0
          /\ raw_materials[m].current_stock = purchase_orders[id].quantity

(***************************************************************************)
(* The stock of raw materials.                                             *)
(***************************************************************************)
\* the movements recorded for a raw material: StockMovement.item_id refers to
\* inventory_items, and no column of the table refers to raw_materials
MaterialMovementsOf(id) ==
    SelectSeq(stock_movements, LAMBDA m : "material_id" \in DOMAIN m /\ m.material_id = id)

C20_TotalCostIsQuantityTimesPrice ==
    /\ \A id \in DOMAIN purchase_orders :
          purchase_orders[id].total_cost
              = purchase_orders[id].quantity * purchase_orders[id].unit_price
    /\ \A caller \in Admins, id \in DOMAIN purchase_orders, data \in UpdatePoPayloads :
          LET po == update_purchase_order(caller, id, data).tables.purchase_orders[id]
          IN  po.total_cost = po.quantity * po.unit_price

\* a purchase order whose quantity and unit price were both changed after
\* its creation with quantity 5 and the price 8 of the plastics supplier
C20_Witness ==
    /\ handler = "update_purchase_order" /\ response = Ok(200)
    /\ \E id \in DOMAIN purchase_orders :
          /\ purchase_orders[id].supplier = "Polymer Solutions"
          /\ purchase_orders[id].quantity = 10
          /\ purchase_orders[id].unit_price = 15
          /\ purchase_orders[id].total_cost = 150

(***************************************************************************)
(* The derived status of stocked rows.                                     *)
(***************************************************************************)
\* stock and minimum level around each other and around zero
StatusInputs == [current_stock : -1 .. 3, min_level : 0 .. 2]

DerivedStatus(current_stock, min_level) ==
    IF current_stock = 0 THEN "out-of-stock"
    ELSE IF current_stock < min_level THEN "low-stock"
    ELSE "in-stock"

\* C22: the status of an inventory item and of a raw material is
\* 'out-of-stock' when the stock is 0, else 'low-stock' when the stock is
\* below the minimum level, else 'in-stock'; it depends on nothing else of
\* the row, and both kinds of row compute the same.
C22_StatusFromStockAndMinimum ==
    /\ \A row \in StatusInputs :
          /\ get_status(row) = DerivedStatus(row.current_stock, row.min_level)
          /\ RawMaterial_get_status(row) = get_status(row)
    /\ \A id \in DOMAIN raw_materials :
          RawMaterial_get_status(raw_materials[id])
              = DerivedStatus(raw_materials[id].current_stock, raw_materials[id].min_level)
    /\ \A j, k \in DOMAIN raw_materials :
          ( /\ raw_materials[j].current_stock = raw_materials[k].current_stock
            /\ raw_materials[j].min_level = raw_materials[k].min_level )
          => RawMaterial_get_status(raw_materials[j]) = RawMaterial_get_status(raw_materials[k])

\* two raw materials of different name and supplier, one low on stock and
\* one in stock after a receipt
C22_Witness ==
    \E j, k \in DOMAIN raw_materials :
        /\ raw_materials[j].material_name # raw_materials[k].material_name
        /\ RawMaterial_get_status(raw_materials[j]) = "low-stock"
        /\ RawMaterial_get_status(raw_materials[k]) = "in-stock"
        /\ raw_materials[k].current_stock > raw_materials[j].current_stock

(***************************************************************************)
(* Generated identifiers.                                                  *)
(***************************************************************************)
\* the rows that a request added to a table
Added(before, after) == {after[k] : k \in DOMAIN after \ DOMAIN before}

\* C11: in every state reached by creations and deletions, a create call of
\* an inventory item, a raw material, a purchase order or an order succeeds,
\* and the identifier of the row it adds is held by no row that was there.
C11_CreateSucceedsWithFreshId ==
    \A caller \in Admins :
        /\ \A data \in CreateItemPayloads :
              LET result == create_inventory_item(caller, data)
              IN  /\ result.response = Ok(201)
                  /\ \A new \in Added(inventory_items, result.tables.inventory_items) :
                        \A k \in DOMAIN inventory_items :
                            inventory_items[k].item_code # new.item_code
        /\ \A data \in CreateMaterialPayloads :
              LET result == create_raw_material(caller, data)
              IN  /\ result.response = Ok(201)
                  /\ \A new \in Added(raw_materials, result.tables.raw_materials) :
                        \A k \in DOMAIN raw_materials :
                            raw_materials[k].material_id # new.material_id
        /\ \A data \in CreatePoPayloads :
              LET result == create_purchase_order(caller, data)
              IN  /\ result.response = Ok(201)
                  /\ \A new \in Added(purchase_orders, result.tables.purchase_orders) :
                        \A k \in DOMAIN purchase_orders :
                            purchase_orders[k].po_id # new.po_id
        /\ \A elapsed \in {0, 1} :
              LET result == create_order(caller, BaseOrder, elapsed)
              IN  /\ result.response = Ok(201)
                  /\ \A new \in Added(orders, result.tables.orders) :
                        ~order_id_taken(orders, new.order_id)

\* C12: when two create_order requests served at the same time picked the
\* same identifier, both are answered 201, the two orders they persisted have
\* different order_id values, and no two orders share an order_id.
C12_RacingCreatesBothPersist ==
    /\ ( /\ \A r \in Slots : requests[r].pc = "done" /\ requests[r].overlaps
         /\ requests[1].first = requests[2].first )
       => /\ \A r \in Slots : requests[r].status = 201 /\ requests[r].row \in DOMAIN orders
          /\ orders[requests[1].row].order_id # orders[requests[2].row].order_id
    /\ \A j, k \in DOMAIN orders : orders[j].order_id = orders[k].order_id => j = k

\* C13: an insert of create_order that violates the uniqueness of order_id
\* persists nothing; after the first one the request generates a new
\* identifier and inserts once more, after the second one it answers 500, so a
\* request inserts at most twice and a request answered 500 persisted no order.
C13_RetriesInsertOnce ==
    \A r \in Slots :
        LET request == requests[r]
            result == commit_order(r)
        IN  /\ ( /\ request.pc \in {"insert", "retry"}
                 /\ order_id_taken(orders, request.order_id) )
               => /\ result.orders = orders
                  /\ result.request.row = 0
                  /\ IF request.pc = "insert"
                     THEN result.request.pc = "regenerate" /\ result.request.status = 0
                     ELSE result.request.pc = "done" /\ result.request.status = 500
            /\ request.inserts <= 2 /\ request.generated <= 2
            /\ request.pc = "retry" => request.inserts = 1 /\ request.generated = 2
            /\ request.status = 500
               => request.inserts = 2 /\ request.row = 0 /\ request.pc = "done"

\* a request whose two inserts both violated the uniqueness while the other
\* request persisted its order
C13_Witness ==
    \E r, o \in Slots :
        /\ requests[r].status = 500 /\ requests[r].inserts = 2 /\ requests[r].generated = 2
        /\ requests[o].status = 201 /\ requests[o].row \in DOMAIN orders
        /\ order_id_taken(orders, requests[r].order_id)

\* C14: generate_unique_order_id looks up at most attempt_limit candidates,
\* and the identifier it returns, the timestamp included, is held by no order
\* and by no other request that fell back to the timestamp.
C14_GeneratedIdIsFresh ==
    LET picked == generate_unique_order_id(orders, clock)
    IN  /\ picked.probed <= attempt_limit
        /\ ~order_id_taken(orders, picked.order_id)
        /\ picked.fallback
           => \A r \in Slots :
                 requests[r].pc \in {"insert", "retry"} => requests[r].order_id # picked.order_id

(***************************************************************************)
(* Updates of orders.                                                      *)
(***************************************************************************)
\* one new value for every column that update_order may store
FieldEdits ==
    {[customer_name |-> "Globex"], [product |-> "Gadget"], [quantity |-> 5],
     [unit_price |-> 4], [total_amount |-> Some(7)], [deadline |-> "2026-12-15"],
     [priority |-> "high"], [special_instructions |-> "fragile"]}

AllFieldsEdit ==
    [customer_name |-> "Globex", product |-> "Gadget", quantity |-> 5, unit_price |-> 4,
     total_amount |-> Some(7), deadline |-> "2026-12-15", priority |-> "high",
     special_instructions |-> "fragile"]

StatusEdits == [status : OrderStatuses] \cup [status : OrderStatuses, comment : {"started"}]

\* a request with one field, with a status, or with every field and a status
OrderUpdates ==
    FieldEdits \cup StatusEdits \cup {AllFieldsEdit @@ st : st \in StatusEdits}

\* C15: a successful update_order that carries a status appends exactly one
\* row to the status history, with the order, its old status, the new status,
\* the comment and the caller, also when the new status is the old one; a
\* successful update_order without a status leaves the history as it is.
C15_StatusUpdateGrowsHistory ==
    \A caller \in Callers, order_id \in DOMAIN orders, data \in OrderUpdates :
        LET result == update_order(caller, order_id, data)
            entry == [order_id |-> order_id,
                      old_status |-> orders[order_id].status,
                      new_status |-> Get(data, "status", "NULL"),
                      comment |-> Get(data, "comment", "NULL"),
                      changed_by |-> users[caller].id]
        IN  result.response = Ok(200)
            => result.tables.order_status_history =
                  IF "status" \in DOMAIN data
                  THEN Append(order_status_history, entry)
                  ELSE order_status_history

\* an update_order went through whose status was the one the order had, after
\* an earlier change of the status
C15_Witness ==
    /\ handler = "update_order" /\ response = Ok(200)
    /\ Len(order_status_history) >= 2
    /\ LET last == order_status_history[Len(order_status_history)]
           before == order_status_history[Len(order_status_history) - 1]
       IN  /\ last.old_status = last.new_status
           /\ before.order_id = last.order_id
           /\ before.old_status # before.new_status

\* C16: an update_order of a caller who is no admin changes nothing of the
\* orders but the status of the addressed order, whatever fields the request
\* supplies; a status supplied by any caller is stored.
C16_ManagerChangesStatusOnly ==
    \A caller \in Callers, order_id \in DOMAIN orders, data \in OrderUpdates :
        LET result == update_order(caller, order_id, data)
            after == result.tables.orders
        IN  /\ ~is_admin(caller)
               => after = [orders EXCEPT ![order_id].status = Get(data, "status", @)]
            /\ "status" \in DOMAIN data
               => result.response = Ok(200) /\ after[order_id].status = data.status

\* the manager's request with a priority and a status went through: the
\* status is stored, the priority is the one the order was created with
C16_Witness ==
    /\ handler = "update_order" /\ response = Ok(200)
    /\ order_status_history # <<>>
    /\ LET last == order_status_history[Len(order_status_history)]
       IN  /\ last.changed_by = users["USR-0002"].id
           /\ last.comment = "rush"
           /\ last.order_id \in DOMAIN orders
           /\ orders[last.order_id].status = "in-progress"
           /\ orders[last.order_id].priority = "medium"

(***************************************************************************)
(* The amount of orders.                                                   *)
(***************************************************************************)
\* the order has a known unit price and its total is quantity times price
PricedRight(order) ==
    order.unit_price # 0 => order.total_amount = Some(order.quantity * order.unit_price)

\* C21: every order whose unit price is not zero has total_amount equal to
\* quantity times unit_price, in every reachable state and after every
\* update_order call on it.
C21_TotalAmountIsQuantityTimesPrice ==
    /\ \A id \in DOMAIN orders : PricedRight(orders[id])
    /\ \A caller \in Callers, id \in DOMAIN orders, data \in OrderUpdates :
          PricedRight(update_order(caller, id, data).tables.orders[id])

(***************************************************************************)
(* Login with bad credentials.                                             *)
(***************************************************************************)
\* the answer is 401 and nothing is issued or written
Refused(result) ==
    /\ result.response.status = 401
    /\ result.tables.tokens = tokens
    /\ result.tables.users = users
    /\ result.tables.activity_logs = activity_logs

\* the users a name given at login belongs to
Named(username) == {u \in DOMAIN users : users[u].username = username}

\* C23 as stated: a login whose username is no user's username, or whose
\* password is not the password of the user of that name, is answered 401,
\* issues no token and leaves last_login and the activity log as they were
C23_BadCredentialsRefused ==
    \A data \in LoginPayloads \ {<<>>} :
        (\/ Named(data.username) = {}
         \/ \E u \in Named(data.username) :
               users[u].password_hash # generate_password_hash(data.password))
        => Refused(login(data, clock))

\* the users that login looks up for a name: by username, else by user_id
LookedUp(username) ==
    IF Named(username) # {} THEN Named(username) ELSE {u \in DOMAIN users : u = username}

\* C23 amended: with the blanks around username and password dropped and
\* neither of them empty, a login whose name is no user's username or
\* user_id, or whose password is not that user's password, is answered 401,
\* issues no token and leaves last_login and the activity log as they were
C23_StrippedBadCredentialsRefused ==
    \A data \in LoginPayloads \ {<<>>} :
        LET username == strip(data.username)
            password == strip(data.password)
        IN  (/\ username # "" /\ password # ""
             /\ \/ LookedUp(username) = {}
                \/ \E u \in LookedUp(username) :
                      users[u].password_hash # generate_password_hash(password))
            => Refused(login(data, clock))

\* a login was refused with 401 while another user held a token and a last_login
C23_Witness ==
    /\ handler = "login"
    /\ response = Err(401, "Invalid credentials")
    /\ tokens # {}
    /\ \E u \in DOMAIN users : users[u].last_login # None
    /\ activity_logs > 0

(***************************************************************************)
(* User management is for admins.                                          *)
(***************************************************************************)
\* the answers of the four routes of user management to one caller
UserManagement(caller) ==
    {wrapper(caller, register(caller, data)) : data \in RegisterPayloads}
        \cup {wrapper(caller, update_user(caller, id, data)) :
                 id \in UserRowIds, data \in UpdateUserPayloads}
        \cup {wrapper(caller, reset_user_password(caller, id, data)) :
                 id \in UserRowIds, data \in ResetPasswordPayloads}
        \cup {wrapper(caller, delete_user(caller, id)) : id \in UserRowIds}

\* C24: register, update_user, reset_user_password and delete_user called
\* by a caller whose stored role is not 'admin' are answered 403 and leave
\* the users table as it was
C24_UserManagementIsAdminOnly ==
    \A caller \in tokens \cup DOMAIN users :
        ~(caller \in DOMAIN users /\ users[caller].role = "admin") =>
            \A result \in UserManagement(caller) :
                /\ result.response = Err(403, "Admin access required")
                /\ result.tables.users = users

\* a manager holding a token was refused a user management request
C24_Witness ==
    /\ handler \in {"register", "update_user", "reset_user_password", "delete_user"}
    /\ response = Err(403, "Admin access required")
    /\ \E caller \in tokens : caller \in DOMAIN users /\ users[caller].role = "manager"
    /\ \A caller \in tokens : ~is_admin(caller)

(***************************************************************************)
(* Who may create an order.                                                *)
(***************************************************************************)
\* C25: a create_order request with all required fields from a manager
\* succeeds and persists the order
C25_ManagerCreatesOrder ==
    \A caller \in DOMAIN users :
        users[caller].role = "manager" =>
            \A data \in CreateOrderPayloads, elapsed \in {0, 1} :
                LET result == wrapper(caller, create_order(caller, data, elapsed))
                IN  /\ result.response.status = 201
                    /\ DOMAIN result.tables.orders # DOMAIN orders

(***************************************************************************)
(* The last admin, and users that were deactivated.                        *)
(***************************************************************************)
\* C28: every state has a user whose role is 'admin'
C28_AlwaysAnAdmin == \E u \in DOMAIN users : users[u].role = "admin"

\* the answers of login to the requests that name one user
LoginsOf(u) ==
    {login(data, clock) : data \in {d \in LoginPayloads \ {<<>>} : u \in LookedUp(strip(d.username))}}

\* C30: a user whose status is not 'active' is issued no token by login,
\* and no admin-only request made with a token issued to that user earlier
\* succeeds or writes anything
C30_InactiveUserChangesNothing ==
    \A u \in DOMAIN users :
        users[u].status # "active" =>
            /\ \A result \in LoginsOf(u) :
                  result.response.status # 200 /\ result.tables.tokens = tokens
            /\ u \in tokens =>
                  \A result \in UserManagement(u) :
                      result.response.status \in {401, 403} /\ result.tables = Tables

(***************************************************************************)
(* Racing adjustments of one item.                                         *)
(***************************************************************************)
\* both requests loaded the item before either committed, and both committed
Overlapped ==
    \A r \in Slots :
        requests[r].pc = "done" /\ requests[r].status = 200 /\ requests[r].seen = 0

\* the stock one request alone makes of the stock the item had at first
Alone(r) ==
    calc_new_stock(requests[r].data.movement_type, initial_stock[1], requests[r].data.quantity)

\* C26: when two adjust_inventory requests both load the item before either
\* commits, both commit and both movements are logged, each computed from
\* the stock loaded, and the item is left with the stock that one of the two
\* requests alone would have made: the other adjustment is lost
C26_RacingAdjustmentsLoseOne ==
    Overlapped =>
        /\ Len(stock_movements) = 2
        /\ \A i \in 1 .. 2 : stock_movements[i].previous_stock = initial_stock[1]
        /\ \E r \in Slots : inventory_items[1].current_stock = Alone(r)

\* two overlapping adds of 2 to a stock of 2: both logged, the stock is 4,
\* and replaying the log gives 6
C26_Witness ==
    /\ Overlapped
    /\ initial_stock[1] = 2
    /\ \A r \in Slots : requests[r].data.movement_type = "add" /\ requests[r].data.quantity = 2
    /\ Len(stock_movements) = 2
    /\ inventory_items[1].current_stock = 4
    /\ Replay(initial_stock[1], MovementsOf(1)) = 6

(***************************************************************************)
(* The status history of an order.                                         *)
(***************************************************************************)
\* order.status_history, oldest first
HistoryOf(order_id) == SelectSeq(order_status_history, LAMBDA h : h.order_id = order_id)

\* C27: the status of an order that has a status history is the new_status
\* of its latest entry, and the old_status of every entry but the first is
\* the new_status of the entry before it
C27_HistoryChainsToStatus ==
    \A order_id \in DOMAIN orders :
        LET history == HistoryOf(order_id)
        IN  history # <<>> =>
                /\ orders[order_id].status = history[Len(history)].new_status
                /\ \A i \in 2 .. Len(history) :
                      history[i].old_status = history[i - 1].new_status

\* an order whose status went from the one it was created with to another
\* and back, in two entries, by two update_order requests
C27_Witness ==
    /\ handler = "update_order" /\ response = Ok(200)
    /\ \E order_id \in DOMAIN orders :
          LET history == HistoryOf(order_id)
          IN  /\ Len(history) = 2
              /\ history[1].old_status # history[1].new_status
              /\ history[2].new_status = history[1].old_status
              /\ orders[order_id].status = history[2].new_status

(***************************************************************************)
(* One credit for each purchase order.                                     *)
(***************************************************************************)
\* C29: a purchase order whose quantity was credited to the stock of a raw
\* material is not credited again: no receive_purchase_order for it changes
\* the raw materials, whatever requests were served in between
C29_CreditedAtMostOnce ==
    \A id \in ever_received, caller \in Admins :
        receive_purchase_order(caller, id).tables.raw_materials = raw_materials

(***************************************************************************)
(* The ledger scenario: one item created with stock 100 and minimum 50,    *)
(* then adjust_inventory requests, each recorded with its answer.          *)
(***************************************************************************)
ScenarioPayloads ==
    [movement_type : {"add", "remove", "adjust"}, quantity : {0, 30, 150}, reason : {"recount"}]

InitScenario ==
    /\ users = DefaultUsers
    /\ tokens = {}
    /\ inventory_items = (1 :> [item_code |-> 1, current_stock |-> 100, min_level |-> 50])
    /\ stock_movements = <<>>
    /\ initial_stock = (1 :> 100)
    /\ raw_materials = <<>>
    /\ initial_material_stock = <<>>
    /\ purchase_orders = <<>>
    /\ ever_received = {}
    /\ orders = <<>>
    /\ order_status_history = <<>>
    /\ activity_logs = 1
    /\ clock = 0
    /\ requests = <<>>
    /\ handler = "create_inventory_item"
    /\ response = Ok(201)
    /\ trace = <<>>

AdjustScenario ==
    /\ Len(trace) < MaxTrace
    /\ \E data \in ScenarioPayloads :
          /\ admin_required("USR-0001", "adjust_inventory",
                            Handle("adjust_inventory", adjust_inventory("USR-0001", 1, data)))
          /\ trace' = Append(trace, [movement_type |-> data.movement_type,
                                     quantity |-> data.quantity,
                                     error |-> response'.error,
                                     stock |-> inventory_items'[1].current_stock,
                                     status |-> get_status(inventory_items'[1])])

NextScenario == AdjustScenario

SpecScenario == InitScenario /\ [][NextScenario]_vars

Asked(i, movement_type, quantity) ==
    trace[i].movement_type = movement_type /\ trace[i].quantity = quantity

\* the requests add 30, remove 150, adjust 0, in this order
C5_Witness ==
    /\ Len(trace) = 3
    /\ Asked(1, "add", 30)
    /\ Asked(2, "remove", 150)
    /\ Asked(3, "adjust", 0)

\* C5 as claimed: from stock 100 and minimum 50, add 30 gives 130 in-stock,
\* remove 150 fails with insufficient stock at 130, adjust 0 gives 0 out-of-stock.
C5_ScenarioAsClaimed ==
    C5_Witness =>
        /\ trace[1].error = "none" /\ trace[1].stock = 130 /\ trace[1].status = "in-stock"
        /\ trace[2].error = "Insufficient stock" /\ trace[2].stock = 130
        /\ trace[3].error = "none" /\ trace[3].stock = 0 /\ trace[3].status = "out-of-stock"

\* C5 amended: add 30 gives 130 in-stock, remove 150 fails with insufficient
\* stock at 130, and adjust 0 is refused ("Quantity must be positive"): the
\* stock stays 130 and the status in-stock.
C5_ScenarioAmended ==
    C5_Witness =>
        /\ trace[1].error = "none" /\ trace[1].stock = 130 /\ trace[1].status = "in-stock"
        /\ trace[2].error = "Insufficient stock" /\ trace[2].stock = 130
        /\ trace[3].error = "Quantity must be positive"
        /\ trace[3].stock = 130 /\ trace[3].status = "in-stock"

====
